---- MODULE Spec2Model ----
(***************************************************************************)
(* Model of pubtools/pulplib/_impl/model/maintenance.py: the immutable     *)
(* MaintenanceEntry / MaintenanceReport values, the duplicate-entries      *)
(* validator, the raw import / export pair and the add / remove            *)
(* transformations.                                                        *)
(*                                                                         *)
(* A caller holds a report (`held`) and makes one call after another; each  *)
(* call records its inputs in `call` and what it returned or raised in     *)
(* `result`.  The receiver of a method call is the held report or the      *)
(* report the previous call returned, and the caller holds it afterwards.  *)
(* Timestamps are the strings strftime produces; they are modelled by the  *)
(* whole second they name, the clock itself being finer than a second.     *)
(***************************************************************************)
EXTENDS Naturals, Sequences, FiniteSets, TLC

VARIABLES
    clock,                 \* the UTC wall clock, in ticks (sub-second)
    USER,                  \* os.environ.get("USER") read at import
    HOSTNAME,              \* os.environ.get("HOSTNAME") read at import
    started_default,       \* attr default of MaintenanceEntry.started
    last_updated_default,  \* attr default of MaintenanceReport.last_updated
    held,                  \* the report the caller holds: receiver of the latest method call
    call,                  \* the latest call: its name, its arguments, the clock at the call
    result                 \* what the latest call returned or raised

vars == <<clock, USER, HOSTNAME, started_default, last_updated_default, held, call, result>>

env == <<USER, HOSTNAME, started_default, last_updated_default>>

-----------------------------------------------------------------------------
(* Bounds of the model. *)

MaxIds == 2
MaxClock == 2

(* Ticks of the clock in one second: strftime("%S") drops what is finer. *)
TicksPerSecond == 2

(* Python's None; every string the model uses differs from it. *)
None == "None"

RepoIds == {"repoA", "repoB"}
(* What the environment can hold for <<USER, HOSTNAME>> at import. *)
Environ == {<<"alice", "host">>, <<None, "host">>, <<"alice", "">>}

(* Sequences over S of length at most n. *)
SeqUpTo(S, n) == UNION {[1..m -> S] : m \in 0..n}

Range(s) == {s[k] : k \in DOMAIN s}

-----------------------------------------------------------------------------
(* Python helpers. *)

(* bool(x) for an optional string. *)
truthy(x) == x # None /\ x # ""

(* `b if a is None else a`: what kwargs.get(key, b) would give. *)
or_is_none(a, b) == IF a # None THEN a ELSE b

(* `a or b`. *)
or_(a, b) == IF truthy(a) THEN a ELSE b

(* kwargs.get(key): kwargs is a dict from keyword names to values. *)
kwargs_get(kwargs, key) == IF key \in DOMAIN kwargs THEN kwargs[key] ELSE None

(* A dict is the sequence of its <<key, value>> items in insertion order,  *)
(* keys pairwise distinct.                                                  *)
dict_keys(d) == {d[k][1] : k \in DOMAIN d}

dict_get(d, key) == d[CHOOSE k \in DOMAIN d : d[k][1] = key][2]

dict_update(d, key, value) ==
    IF key \in dict_keys(d)
    THEN [k \in DOMAIN d |-> IF d[k][1] = key THEN <<key, value>> ELSE d[k]]
    ELSE Append(d, <<key, value>>)

-----------------------------------------------------------------------------
(* The module. *)

iso_time_at(t) == t \div TicksPerSecond

iso_time_now == iso_time_at(clock)

MaintenanceEntry(repo_id, message, owner, started) ==
    [repo_id |-> repo_id, message |-> message, owner |-> owner, started |-> started]

_OWNER ==
    IF truthy(USER) /\ truthy(HOSTNAME)
    THEN USER \o "@" \o HOSTNAME
    ELSE "pubtools.pulplib"

ValueError(msg) == [exc |-> "ValueError", msg |-> msg]

IsReport(x) == "entries" \in DOMAIN x

(* A validator that compares whole entries, not their repo_ids. *)
check_duplicates_whole(value) == Len(value) # Cardinality(Range(value))

(* The entries validator: TRUE when it raises. *)
check_duplicates(value) ==
    LET repo_ids == [k \in DOMAIN value |-> value[k].repo_id]
    IN  Len(repo_ids) # Cardinality(Range(repo_ids))

(* The attrs-generated constructor, which attr.evolve calls as well. *)
MaintenanceReport(last_updated, last_updated_by, entries) ==
    IF check_duplicates(entries)
    THEN ValueError("Duplicate entries")
    ELSE [last_updated |-> last_updated,
          last_updated_by |-> last_updated_by,
          entries |-> entries]

(* An import that passes message and owner on, started not. *)
_from_data_drop_started(data) ==
    LET items == data.repos
        entries == [k \in DOMAIN items |->
                       MaintenanceEntry(items[k][1], items[k][2].message,
                                        items[k][2].owner, started_default)]
    IN  MaintenanceReport(data.last_updated, data.last_updated_by, entries)

(* cls._from_data(data) for data the "maintenance" schema accepts. *)
_from_data(data) ==
    LET items == data.repos
        entries == [k \in DOMAIN items |->
                       MaintenanceEntry(items[k][1], items[k][2].message,
                                        items[k][2].owner, items[k][2].started)]
    IN  MaintenanceReport(data.last_updated, data.last_updated_by, entries)

RECURSIVE export_repos(_, _, _)
export_repos(entries, k, repos) ==
    IF k > Len(entries)
    THEN repos
    ELSE export_repos(entries, k + 1,
                      dict_update(repos, entries[k].repo_id,
                                  [message |-> entries[k].message,
                                   owner |-> entries[k].owner,
                                   started |-> entries[k].started]))

_export_dict(self) ==
    [last_updated |-> self.last_updated,
     last_updated_by |-> self.last_updated_by,
     repos |-> export_repos(self.entries, 1, << >>)]

(* A scan that filters nothing out. *)
RECURSIVE filter_entries_keep_all(_, _, _, _)
filter_entries_keep_all(entries, k, filtered_entries, entry_ids) ==
    IF k = 0
    THEN filtered_entries
    ELSE filter_entries_keep_all(entries, k - 1, Append(filtered_entries, entries[k]),
                                 entry_ids \cup {entries[k].repo_id})

(* A scan from the front: keeps the first entry of each id. *)
RECURSIVE filter_entries_forward(_, _, _, _)
filter_entries_forward(entries, k, filtered_entries, entry_ids) ==
    IF k = 0
    THEN filtered_entries
    ELSE LET entry == entries[Len(entries) - k + 1]
         IN  IF entry.repo_id \notin entry_ids
             THEN filter_entries_forward(entries, k - 1, Append(filtered_entries, entry),
                                         entry_ids \cup {entry.repo_id})
             ELSE filter_entries_forward(entries, k - 1, filtered_entries, entry_ids)

(* The reverse scan of add: keeps, from the end, the first entry of each id. *)
RECURSIVE filter_entries(_, _, _, _)
filter_entries(entries, k, filtered_entries, entry_ids) ==
    IF k = 0
    THEN filtered_entries
    ELSE IF entries[k].repo_id \notin entry_ids
         THEN filter_entries(entries, k - 1, Append(filtered_entries, entries[k]),
                             entry_ids \cup {entries[k].repo_id})
         ELSE filter_entries(entries, k - 1, filtered_entries, entry_ids)

add(self, repo_ids, kwargs) ==
    LET message == or_(kwargs_get(kwargs, "message"), "Maintenance mode is enabled")
        owner == or_(kwargs_get(kwargs, "owner"), _OWNER)
        to_add == [k \in DOMAIN repo_ids |->
                      MaintenanceEntry(repo_ids[k], message, owner, started_default)]
        entries == self.entries \o to_add
        filtered_entries == filter_entries(entries, Len(entries), << >>, {})
    IN  MaintenanceReport(iso_time_now, owner, filtered_entries)

(* A remove that refreshes last_updated as add does. *)
remove_refresh(self, repo_ids, kwargs) ==
    LET owner == or_(kwargs_get(kwargs, "owner"), _OWNER)
        ids == Range(repo_ids)
        new_entries == SelectSeq(self.entries, LAMBDA entry : entry.repo_id \notin ids)
    IN  MaintenanceReport(iso_time_now, owner, new_entries)

remove(self, repo_ids, kwargs) ==
    LET owner == or_(kwargs_get(kwargs, "owner"), _OWNER)
        ids == Range(repo_ids)
        new_entries == SelectSeq(self.entries, LAMBDA entry : entry.repo_id \notin ids)
    IN  MaintenanceReport(self.last_updated, owner, new_entries)

-----------------------------------------------------------------------------
(* Inputs of the calls. *)

(* Keyword arguments: no keyword, every keyword empty, every keyword a name. *)
KwargsOver(keys) == {<< >>, [k \in keys |-> ""], [k \in keys |-> "bob"]}

(* The fields a caller gives an entry besides its repo_id. *)
Details ==
    {[message |-> None, owner |-> None, started |-> started_default],
     [message |-> "testing", owner |-> "bob", started |-> iso_time_now]}

EntryInputs ==
    {MaintenanceEntry(id, d.message, d.owner, d.started) : id \in RepoIds, d \in Details}

(* Raw reports: the repos mapping has each repo_id at most once. *)
RawRepos ==
    {d \in SeqUpTo(RepoIds \X Details, MaxIds) :
        \A a, b \in DOMAIN d : a # b => d[a][1] # d[b][1]}

RawData ==
    {[last_updated |-> iso_time_now, last_updated_by |-> by, repos |-> repos] :
        by \in {None, "bob"}, repos \in RawRepos}

-----------------------------------------------------------------------------
(* The state machine. *)

(* Import of the module, then report = MaintenanceReport(). *)
Init ==
    /\ clock = 0
    /\ \E environ \in Environ : USER = environ[1] /\ HOSTNAME = environ[2]
    /\ started_default = iso_time_at(0)
    /\ last_updated_default = iso_time_at(0)
    /\ held = MaintenanceReport(iso_time_at(0), None, << >>)
    /\ call = [op |-> "MaintenanceReport", entries |-> << >>, at |-> 0]
    /\ result = held

Tick ==
    /\ clock < MaxClock
    /\ clock' = clock + 1
    /\ UNCHANGED <<env, held, call, result>>

(* The reports a method can be called on. *)
Receivers == {held} \cup (IF IsReport(result) THEN {result} ELSE {})

(* MaintenanceReport(entries=entries) *)
Construct(entries) ==
    /\ result' = MaintenanceReport(last_updated_default, None, entries)
    /\ call' = [op |-> "MaintenanceReport", entries |-> entries, at |-> clock]
    /\ UNCHANGED <<clock, env, held>>

(* MaintenanceReport._from_data(data) *)
FromData(data) ==
    /\ result' = _from_data(data)
    /\ call' = [op |-> "_from_data", data |-> data, at |-> clock]
    /\ UNCHANGED <<clock, env, held>>

(* self._export_dict() *)
Export(self) ==
    /\ result' = _export_dict(self)
    /\ call' = [op |-> "_export_dict", at |-> clock]
    /\ held' = self
    /\ UNCHANGED <<clock, env>>

(* An add that changes its receiver instead of returning a copy. *)
AddInPlace(self, repo_ids, kwargs) ==
    /\ result' = add(self, repo_ids, kwargs)
    /\ call' = [op |-> "add", repo_ids |-> repo_ids, kwargs |-> kwargs, at |-> clock]
    /\ held' = result'
    /\ UNCHANGED <<clock, env>>

(* self.add(repo_ids, **kwargs) *)
Add(self, repo_ids, kwargs) ==
    /\ result' = add(self, repo_ids, kwargs)
    /\ call' = [op |-> "add", repo_ids |-> repo_ids, kwargs |-> kwargs, at |-> clock]
    /\ held' = self
    /\ UNCHANGED <<clock, env>>

(* self.remove(repo_ids, **kwargs) *)
Remove(self, repo_ids, kwargs) ==
    /\ result' = remove(self, repo_ids, kwargs)
    /\ call' = [op |-> "remove", repo_ids |-> repo_ids, kwargs |-> kwargs, at |-> clock]
    /\ held' = self
    /\ UNCHANGED <<clock, env>>

Next ==
    \/ Tick
    \/ \E self \in Receivers, repo_ids \in SeqUpTo(RepoIds, MaxIds),
          kwargs \in KwargsOver({"message", "owner"}) : Add(self, repo_ids, kwargs)
    \/ \E self \in Receivers, repo_ids \in SeqUpTo(RepoIds, MaxIds),
          kwargs \in KwargsOver({"owner"}) : Remove(self, repo_ids, kwargs)

Spec == Init /\ [][Next]_vars

(* Direct construction of reports. *)
NextConstruct ==
    \/ Tick
    \/ \E entries \in SeqUpTo(EntryInputs, MaxIds) : Construct(entries)

SpecConstruct == Init /\ [][NextConstruct]_vars

(* Import of raw reports and export of the reports they give. *)
NextData ==
    \/ Tick
    \/ \E data \in RawData : FromData(data)
    \/ \E self \in Receivers : Export(self)

SpecData == Init /\ [][NextData]_vars

-----------------------------------------------------------------------------
(* Vocabulary of the properties. *)

ids_of(entries) == {entries[k].repo_id : k \in DOMAIN entries}

distinct_ids(entries) ==
    \A a, b \in DOMAIN entries : a # b => entries[a].repo_id # entries[b].repo_id

(* The value of a keyword that counts as supplied, else the default. *)
resolved(kwargs, key, default) ==
    IF key \in DOMAIN kwargs /\ kwargs[key] # None /\ kwargs[key] # ""
    THEN kwargs[key]
    ELSE default

DefaultMessage == "Maintenance mode is enabled"

called(op) == call.op = op

-----------------------------------------------------------------------------
(* C1: whatever sequence of add and remove calls led to it, and whatever   *)
(* repeated or already present ids the call was given, the outcome of add  *)
(* or remove is a report (the duplicate-entries validator did not raise)   *)
(* in which no two entries share a repo_id.                                *)
C1_NoDuplicateEntries ==
    (called("add") \/ called("remove")) =>
        /\ IsReport(result)
        /\ distinct_ids(result.entries)

(* add was given the same id twice, and the receiver already had it. *)
C1_Witness ==
    /\ called("add")
    /\ Len(call.repo_ids) = 2
    /\ call.repo_ids[1] = call.repo_ids[2]
    /\ call.repo_ids[1] \in ids_of(held.entries)
    /\ IsReport(result)
    /\ Len(result.entries) = 2

(* C2: after add, each id of repo_ids has exactly one entry, which carries *)
(* the owner and message resolved for this call, and every entry of the    *)
(* receiver whose id is not in repo_ids is in the result as it was.        *)
C2_AddOverwrites ==
    called("add") =>
        /\ IsReport(result)
        /\ \A id \in Range(call.repo_ids) :
              /\ Cardinality({k \in DOMAIN result.entries :
                                 result.entries[k].repo_id = id}) = 1
              /\ \A k \in DOMAIN result.entries :
                    result.entries[k].repo_id = id =>
                        /\ result.entries[k].owner = resolved(call.kwargs, "owner", _OWNER)
                        /\ result.entries[k].message =
                               resolved(call.kwargs, "message", DefaultMessage)
        /\ \A k \in DOMAIN held.entries :
              held.entries[k].repo_id \notin Range(call.repo_ids) =>
                  held.entries[k] \in Range(result.entries)

(* add(["repoA"], owner="bob") on a report holding repoA under another     *)
(* owner, next to an entry the call does not name.                         *)
C2_Witness ==
    /\ called("add")
    /\ IsReport(result)
    /\ \E e \in Range(held.entries) :
          /\ e.repo_id \in Range(call.repo_ids)
          /\ e.owner # "bob"
          /\ \E f \in Range(result.entries) : f.repo_id = e.repo_id /\ f.owner = "bob"
    /\ \E e \in Range(held.entries) : e.repo_id \notin Range(call.repo_ids)

(* C3: remove(add(r, A), B) for disjoint A and B holds exactly the entries *)
(* of r whose id is in neither B nor A (those in A are replaced), and for  *)
(* each id of A one entry with the owner and message resolved for the add  *)
(* and with started the time of the add.                                   *)
C3_RemoveAfterAdd ==
    [][ ( /\ called("add")
          /\ call'.op = "remove"
          /\ held' = result
          /\ Range(call.repo_ids) \cap Range(call'.repo_ids) = {} )
        =>
        ( /\ IsReport(result')
          /\ distinct_ids(result'.entries)
          /\ Range(result'.entries) =
                {e \in Range(held.entries) :
                    e.repo_id \notin Range(call.repo_ids) \cup Range(call'.repo_ids)}
                \cup
                {MaintenanceEntry(id,
                                  resolved(call.kwargs, "message", DefaultMessage),
                                  resolved(call.kwargs, "owner", _OWNER),
                                  iso_time_at(call.at)) : id \in Range(call.repo_ids)} )
      ]_vars

(* C4: add records the time of the call as last_updated and the resolved   *)
(* owner as last_updated_by; remove records the resolved owner and keeps   *)
(* the receiver's last_updated, also when no entry matches repo_ids, the   *)
(* entries then being those of the receiver.                               *)
C4_Bookkeeping ==
    /\ called("add") =>
          /\ IsReport(result)
          /\ result.last_updated = iso_time_at(call.at)
          /\ result.last_updated_by = resolved(call.kwargs, "owner", _OWNER)
    /\ called("remove") =>
          /\ IsReport(result)
          /\ result.last_updated_by = resolved(call.kwargs, "owner", _OWNER)
          /\ result.last_updated = held.last_updated
          /\ (ids_of(held.entries) \cap Range(call.repo_ids) = {} =>
                 result.entries = held.entries)

(* remove of an id the report does not hold, a second after the report was *)
(* last updated, by another owner.                                         *)
C4_Witness ==
    /\ called("remove")
    /\ IsReport(result)
    /\ held.entries # << >>
    /\ call.repo_ids # << >>
    /\ ids_of(held.entries) \cap Range(call.repo_ids) = {}
    /\ held.last_updated # iso_time_at(call.at)
    /\ held.last_updated_by # result.last_updated_by

(* C5: every entry add creates has started equal to the time of that add   *)
(* call, which is the last_updated the same call records.                  *)
C5_StartedIsTimeOfAdd ==
    (called("add") /\ IsReport(result)) =>
        \A e \in Range(result.entries) :
            e.repo_id \in Range(call.repo_ids) =>
                /\ e.started = iso_time_at(call.at)
                /\ e.started = result.last_updated

(* C6: in the result of add the surviving entries of the receiver come     *)
(* first, in the order they had, and the new entries follow in the order   *)
(* of repo_ids; with no repo_ids the entries are those of the receiver.    *)
C6_InsertionOrder ==
    (called("add") /\ IsReport(result)) =>
        LET survivors == SelectSeq(held.entries,
                                   LAMBDA e : e.repo_id \notin Range(call.repo_ids))
            n == Len(survivors)
        IN  /\ Len(result.entries) >= n
            /\ SubSeq(result.entries, 1, n) = survivors
            /\ \A p, q \in (n + 1)..Len(result.entries) :
                  p < q =>
                      \E i, j \in DOMAIN call.repo_ids :
                          /\ i < j
                          /\ call.repo_ids[i] = result.entries[p].repo_id
                          /\ call.repo_ids[j] = result.entries[q].repo_id

(* C7: exporting the report _from_data made of a raw structure gives a     *)
(* structure with the same last_updated and last_updated_by, the same      *)
(* repo_id keys, each once, and for each key the same message, owner and   *)
(* started.                                                                *)
C7_RoundTrip ==
    [][ ( /\ called("_from_data")
          /\ call'.op = "_export_dict"
          /\ held' = result )
        =>
        ( /\ result'.last_updated = call.data.last_updated
          /\ result'.last_updated_by = call.data.last_updated_by
          /\ dict_keys(result'.repos) = dict_keys(call.data.repos)
          /\ Len(result'.repos) = Cardinality(dict_keys(call.data.repos))
          /\ \A key \in dict_keys(call.data.repos) :
                dict_get(result'.repos, key) = dict_get(call.data.repos, key) )
      ]_vars

(* An export of a report with two repos whose details differ and whose     *)
(* started is not the default.                                             *)
C7_Witness ==
    /\ called("_export_dict")
    /\ Len(result.repos) = 2
    /\ result.repos[1][2] # result.repos[2][2]
    /\ \E k \in DOMAIN result.repos : result.repos[k][2].started # started_default
    /\ result.last_updated_by = "bob"

(* C8: constructing a report from entries of which two share a repo_id     *)
(* raises ValueError("Duplicate entries") and gives no report, whatever    *)
(* their other fields; from entries of pairwise distinct repo_ids it gives *)
(* the report holding those entries.                                       *)
C8_DuplicateEntriesRejected ==
    called("MaintenanceReport") =>
        IF distinct_ids(call.entries)
        THEN /\ IsReport(result)
             /\ result.entries = call.entries
        ELSE /\ ~IsReport(result)
             /\ result = [exc |-> "ValueError", msg |-> "Duplicate entries"]

(* Two entries of one repo_id that differ in every other field. *)
C8_Witness ==
    /\ called("MaintenanceReport")
    /\ Len(call.entries) = 2
    /\ call.entries[1].repo_id = call.entries[2].repo_id
    /\ call.entries[1].owner # call.entries[2].owner
    /\ call.entries[1].started # call.entries[2].started
    /\ ~IsReport(result)

C10_EmptyKeywordsDefaulted ==
    (called("add") \/ called("remove")) =>
        /\ IsReport(result)
        /\ result.last_updated_by \notin {None, ""}
        /\ (kwargs_get(call.kwargs, "owner") \in {None, ""} =>
               result.last_updated_by = _OWNER)
        /\ called("add") =>
              \A e \in Range(result.entries) :
                  e.repo_id \in Range(call.repo_ids) =>
                      /\ e.owner \notin {None, ""}
                      /\ e.message \notin {None, ""}
                      /\ (kwargs_get(call.kwargs, "owner") \in {None, ""} =>
                             e.owner = _OWNER)
                      /\ (kwargs_get(call.kwargs, "message") \in {None, ""} =>
                             e.message = DefaultMessage)

(* add with owner="" and message="" where the environment names no user. *)
C10_Witness ==
    /\ called("add")
    /\ call.repo_ids # << >>
    /\ "owner" \in DOMAIN call.kwargs
    /\ call.kwargs["owner"] = ""
    /\ call.kwargs["message"] = ""
    /\ ~truthy(USER)
    /\ IsReport(result)
    /\ result.last_updated_by = "pubtools.pulplib"

====
